---- MODULE Spec2Model ----
(***************************************************************************)
(* Model of resume_analyser_st.py: the Streamlit script main() and the     *)
(* report formatter create_analysis_report().                              *)
(*                                                                         *)
(* One run of main() is one pass of the script over the current widget     *)
(* values.  The external ResumeAnalyzer is an environment: each of its     *)
(* calls either returns a value drawn from a bounded set or raises.        *)
(*                                                                         *)
(* Text is modelled as token sequences: a line (or a message) is a         *)
(* sequence of strings whose concatenation is the Python string.  A        *)
(* report is the sequence of its "\n"-terminated lines.                    *)
(***************************************************************************)
EXTENDS Integers, Sequences, FiniteSets, TLC

\* ------------------------------------------------------------------ bounds
MaxFiles == 2
MaxResults == 2
MaxKeywords == 2
MaxSuggestions == 1

\* "=" * 50 and "-" * 50
SeparatorWidth == 50

\* ------------------------------------------------------------- value model
\* Python values the analyzer can hand back for a field of a result mapping.
Null == [tag |-> "null"]
Str(s) == [tag |-> "str", s |-> s]
List(items) == [tag |-> "list", items |-> items]

SeqsUpTo(S, n) == UNION {[1..k -> S] : k \in 0..n}

FileNames == {"resume1.pdf", "resume2.pdf"}
Scores == {"90%", "75%"}
KeywordRoster == <<"SQL", "Python", "Docker", "AWS">>
SuggestionRoster == <<"Add metrics", "Shorten the summary", "Fix typos">>
Summaries == {"Strong profile"}

\* dict.get(key, default): the default only when the key is absent; a key
\* that is present with value None yields None.
Get(d, key, default) == IF key \in DOMAIN d THEN d[key] ELSE default

\* bool(x) for the values above: None, "" and [] are falsy.
Truthy(v) ==
    CASE v.tag = "null" -> FALSE
      [] v.tag = "str" -> v.s # ""
      [] v.tag = "list" -> v.items # <<>>

\* f"{x}" / str(x) of a field value (strings and None only).
Format(v) == IF v.tag = "null" THEN "None" ELSE v.s

\* Iterating a value with "for": a list yields its items, None raises
\* TypeError.
Iterable(v) == v.tag = "list"

Repeat(c, n) == [i \in 1..n |-> c]

\* ------------------------------------------------- create_analysis_report
\* A computation that may raise: out is what was produced before it stopped.
Ok(out) == [out |-> out, exc |-> "none"]
Raise(out, e) == [out |-> out, exc |-> e]
Then(a, b) == IF a.exc # "none" THEN a ELSE [out |-> a.out \o b.out, exc |-> b.exc]

TypeErrorNone == "'NoneType' object is not iterable"

ReportHeader ==
    << <<"Resume Analysis Report">>,
       Repeat("=", SeparatorWidth),
       <<"Generated on: ", "strftime(%Y-%m-%d %H:%M:%S)">>,
       <<>> >>

KeywordLinesNoFallback(keywords) ==
    IF Truthy(keywords)
    THEN [j \in 1..Len(keywords.items) |-> <<"- ", keywords.items[j]>>]
    ELSE <<>>

\* lines 22-27
KeywordLines(keywords) ==
    IF Truthy(keywords)
    THEN [j \in 1..Len(keywords.items) |-> <<"- ", keywords.items[j]>>]
    ELSE << <<"None">> >>

SuggestionLinesWithFallback(suggestions) ==
    IF ~Iterable(suggestions)
    THEN Raise(<<>>, TypeErrorNone)
    ELSE IF suggestions.items = <<>>
         THEN Ok(<< <<"None">> >>)
         ELSE Ok([j \in 1..Len(suggestions.items) |-> <<"- ", suggestions.items[j]>>])

\* lines 31-33
SuggestionLines(suggestions) ==
    IF ~Iterable(suggestions)
    THEN Raise(<<>>, TypeErrorNone)
    ELSE Ok([j \in 1..Len(suggestions.items) |-> <<"- ", suggestions.items[j]>>])

\* lines 14-34: the section of the i-th result
ReportSection(i, result) ==
    Then(Ok(<< <<"Resume #", ToString(i), ": ", Format(Get(result, "filename", Str("Unknown")))>>,
               Repeat("-", SeparatorWidth),
               <<"Match Score: ", Format(Get(result, "JD Match", Str("0%")))>>,
               <<>>,
               <<"Profile Summary:">>,
               <<Format(Get(result, "Profile Summary", Str("No summary available")))>>,
               <<>>,
               <<"Missing Keywords:">> >>
            \o KeywordLines(Get(result, "MissingKeywords", List(<<>>)))
            \o << <<>>, <<"Suggestions:">> >>),
    Then(SuggestionLines(Get(result, "Suggestions", List(<<>>))),
         Ok(<< <<>>, Repeat("=", SeparatorWidth), <<>> >>)))

RECURSIVE ReportSections(_, _)
ReportSections(results, i) ==
    IF i > Len(results) THEN Ok(<<>>)
    ELSE Then(ReportSection(i, results[i]), ReportSections(results, i + 1))

\* lines 7-36: exc = "none" and out = the report, or the exception raised
create_analysis_report(results) == Then(Ok(ReportHeader), ReportSections(results, 1))

\* ---------------------------------------------------- analyzer responses
Absent == [tag |-> "absent"]
Unset == [tag |-> "unset"]
Dict(d) == [tag |-> "dict", d |-> d]

\* A result mapping from the value (or Absent) chosen for each of its keys.
MkDict(fn, jd, ps, mk, sg) ==
    LET all == ("filename" :> fn) @@ ("JD Match" :> jd) @@ ("Profile Summary" :> ps)
               @@ ("MissingKeywords" :> mk) @@ ("Suggestions" :> sg)
    IN  [k \in {x \in DOMAIN all : all[x].tag # "absent"} |-> all[k]]

StrOpts(S) == {Absent} \cup {Str(s) : s \in S}
\* Absent, null, or the first k entries of the roster, k = 0..n.
ListOpts(roster, n) == {Absent, Null} \cup {List(SubSeq(roster, 1, k)) : k \in 0..n}

\* What analyze_resume can return: a non-mapping, or a mapping with any of
\* its documented keys present, absent or (for the lists) null.
SingleResponses ==
    {Null, Str("I cannot analyze this resume"), List(<<>>)}
    \cup {Dict(MkDict(Absent, jd, ps, mk, sg)) :
            jd \in StrOpts({"90%"}), ps \in StrOpts(Summaries),
            mk \in ListOpts(KeywordRoster, MaxKeywords),
            sg \in ListOpts(SuggestionRoster, MaxSuggestions)}

\* The optional body of a batch result: all keys absent, all present and
\* filled, all present and empty, the lists null.
BatchBodies ==
    { <<Absent, Absent, Absent>>,
      <<Str("Strong profile"), List(<<"SQL", "Python">>), List(<<"Add metrics">>)>>,
      <<Str("Strong profile"), List(<<>>), List(<<>>)>>,
      <<Null, Null, Null>> }

BatchDicts ==
    {MkDict(fn, jd, b[1], b[2], b[3]) :
        fn \in StrOpts(FileNames), jd \in StrOpts(Scores), b \in BatchBodies}

\* What analyze_multiple_resumes can return: None or a list of mappings.
BatchResponses == {Null} \cup {List(items) : items \in SeqsUpTo(BatchDicts, MaxResults)}

\* The inputs of create_analysis_report checked on its own: every shape of
\* the two lists in every section.
ReportDicts ==
    {MkDict(Str("resume1.pdf"), Str("90%"), Str("Strong profile"), mk, sg) :
        mk \in ListOpts(KeywordRoster, MaxKeywords),
        sg \in ListOpts(SuggestionRoster, MaxSuggestions)}

ReportInputs == {List(items) : items \in SeqsUpTo(ReportDicts, MaxResults)}

ExceptionMessages == {"Connection error"}
ExtractedTexts == {"Experienced engineer"}

\* ------------------------------------------------------------------ state
VARIABLES
    api_key,          \* st.text_input: the credential string
    job_description,  \* st.text_area
    uploaded_files,   \* st.file_uploader: the files in upload order
    button,           \* st.button: TRUE in the run a click triggered
    pc,               \* where the run of main() stands
    analyzer,         \* local of main(): the ResumeAnalyzer, once constructed
    ui,               \* the elements rendered by this run, in order
    calls,            \* the analyzer operations invoked by this run, in order
    outcome,          \* how the last analyzer operation ended
    raised,           \* the exception an except clause of this run caught
    resume_text,      \* local of main()
    result,           \* local of main()
    results,          \* local of main() / argument of create_analysis_report
    report,           \* local of main() / value of create_analysis_report
    summary_data      \* local of main()

vars == <<api_key, job_description, uploaded_files, button, pc, analyzer, ui, calls, outcome,
          raised, resume_text, result, results, report, summary_data>>

ApiKeys == {"", "sk-test"}
JobDescriptions == {"", "Data engineer"}
File(name) == [name |-> name]
UploadName(i) == "resume" \o ToString(i) \o ".pdf"
\* n files, uploaded in the order of their names or in the opposite order.
Uploads ==
    UNION {{[i \in 1..n |-> File(UploadName(i))],
            [i \in 1..n |-> File(UploadName(n + 1 - i))]} : n \in 0..MaxFiles}

\* ------------------------------------------------------------- UI elements
El(kind, text) == [kind |-> kind, text |-> text]
Call(op, args) == [op |-> op, args |-> args]

\* lines 39-40
PageHead ==
    << El("title", <<"Resume ATS Analysis">>),
       El("subheader", <<"Compare multiple resumes against a job description">>) >>

ApiKeyWarning == El("warning", <<"Please enter your OpenAI API key.">>)
InputsWarningSameAsKey == El("warning", <<"Please enter your OpenAI API key.">>)
InputsWarning ==
    El("warning", <<"Please upload at least one resume and provide a job description.">>)
InvalidFormatError == El("error", <<"Invalid response format from the analyzer">>)

\* lines 107-109
ExceptSingle(e) ==
    << El("error", <<"Error occurred: ", e>>),
       El("error", <<"Please try again with a different resume or job description">>) >>

ExceptBatchWithoutSuggestion(e) == << El("error", <<"Error occurred: ", e>>) >>

\* lines 167-169
ExceptBatch(e) ==
    << El("error", <<"Error occurred: ", e>>),
       El("error", <<"Please try again with different resumes or job description">>) >>

\* d[key]: KeyError when the key is absent (str(KeyError) is the quoted key).
KeyError(key) == "'" \o key \o "'"

\* lines 92-96 and 155-159: the bullet list of missing keywords
KeywordBullets(keywords) ==
    IF Truthy(keywords)
    THEN [j \in 1..Len(keywords.items) |-> El("write", <<"\\u2022", keywords.items[j]>>)]
    ELSE << El("write", <<"No missing keywords found">>) >>

\* lines 102-103 and 162-163
SuggestionWarnings(suggestions) ==
    IF ~Iterable(suggestions)
    THEN Raise(<<>>, TypeErrorNone)
    ELSE Ok([j \in 1..Len(suggestions.items) |->
                El("warning", <<"\\u2022 ", suggestions.items[j]>>)])

\* ------------------------------------------------ single-resume rendering
RenderSingleAnyMapping(res) ==
    IF res.tag = "dict"
    THEN Then(Ok(<< El("success", <<"Analysis completed!">>) >>),
              IF "JD Match" \in DOMAIN res.d
              THEN Ok(<< El("metric", <<"Job Description Match", Format(res.d["JD Match"])>>) >>)
              ELSE Raise(<<>>, KeyError("JD Match")))
    ELSE Ok(<<InvalidFormatError>>)

\* lines 81-105: what the single-resume branch renders for `res`, and the
\* exception it stops with, if any.
RenderSingle(res) ==
    IF res.tag = "dict" /\ "JD Match" \in DOMAIN res.d
    THEN LET d == res.d IN
         Then(Ok(<< El("success", <<"Analysis completed!">>),
                    El("metric", <<"Job Description Match", Format(d["JD Match"])>>),
                    El("subheader", <<"Missing Keywords">>) >>),
         Then(IF "MissingKeywords" \in DOMAIN d
              THEN Ok(KeywordBullets(d["MissingKeywords"]))
              ELSE Raise(<<>>, KeyError("MissingKeywords")),
         Then(Ok(<< El("subheader", <<"Profile Summary">>) >>),
         Then(IF "Profile Summary" \in DOMAIN d
              THEN Ok(<< El("info", <<Format(d["Profile Summary"])>>) >>)
              ELSE Raise(<<>>, KeyError("Profile Summary")),
         Then(Ok(<< El("subheader", <<"Suggestions">>) >>),
              IF "Suggestions" \in DOMAIN d
              THEN SuggestionWarnings(d["Suggestions"])
              ELSE Raise(<<>>, KeyError("Suggestions")))))))
    ELSE Ok(<<InvalidFormatError>>)

\* --------------------------------------------------------- batch rendering
\* ", ".join(items)
RECURSIVE Join(_, _)
Join(sep, items) ==
    IF Len(items) = 0 THEN <<>>
    ELSE IF Len(items) = 1 THEN <<items[1]>>
    ELSE <<items[1], sep>> \o Join(sep, Tail(items))

\* lines 135-140: the row of the result at 0-based index i - 1
SummaryRow(i, res) ==
    [Rank |-> i,
     Resume |-> Get(res, "filename", Str("Unknown")),
     Match |-> Get(res, "JD Match", Str("0%")),
     MissingKeywords |->
        IF Truthy(Get(res, "MissingKeywords", Null))
        THEN Join(", ", Get(res, "MissingKeywords", List(<<>>)).items)
        ELSE <<"None">>]

SummaryDataReordered(items) ==
    [i \in 1..Len(items) |-> SummaryRow(i, items[Len(items) + 1 - i])]

\* lines 133-140
SummaryData(items) == [i \in 1..Len(items) |-> SummaryRow(i, items[i])]

\* lines 150-163: one expander and what it holds
Expander(i, res) ==
    Then(Ok(<< El("expander", <<"#", ToString(i), ": ",
                                Format(Get(res, "filename", Str("Unknown"))), " - ",
                                Format(Get(res, "JD Match", Str("0%"))), " Match">>),
               El("subheader", <<"Profile Summary">>),
               El("info", <<Format(Get(res, "Profile Summary", Str("No summary available")))>>),
               El("subheader", <<"Missing Keywords">>) >>
            \o KeywordBullets(Get(res, "MissingKeywords", Null))
            \o << El("subheader", <<"Suggestions">>) >>),
         SuggestionWarnings(Get(res, "Suggestions", List(<<>>))))

RECURSIVE Expanders(_, _)
Expanders(items, i) ==
    IF i > Len(items) THEN Ok(<<>>)
    ELSE Then(Expander(i, items[i]), Expanders(items, i + 1))

\* lines 125-130
DownloadButton(rep) ==
    [kind |-> "download_button",
     text |-> <<"Download Detailed Analysis Report">>,
     data |-> rep,
     file_name |-> <<"resume_analysis_", "strftime(%Y%m%d_%H%M%S)", ".txt">>,
     mime |-> "text/plain"]

\* line 145
DataFrame(rows) == [kind |-> "dataframe", text |-> <<>>, rows |-> rows]

\* lines 121-163: what is rendered for a non-empty list of results
RenderResults(items) ==
    LET rep == create_analysis_report(items) IN
    Then(Ok(<< El("success", <<"Successfully analyzed ", ToString(Len(items)),
                               " resumes!">>) >>),
    Then(IF rep.exc = "none" THEN Ok(<<DownloadButton(rep.out)>>)
                             ELSE Raise(<<>>, rep.exc),
    Then(Ok(<< El("subheader", <<"Resume Ranking">>),
               DataFrame(SummaryData(items)),
               El("subheader", <<"Detailed Analysis">>) >>),
         Expanders(items, 1))))

FailedToAnalyze == El("error", <<"Failed to analyze resumes. Please try again.">>)

RenderBatchNoEmptyCheck(res) ==
    IF res.tag = "list" THEN RenderResults(res.items) ELSE Ok(<<FailedToAnalyze>>)

\* lines 120-165: what the batch branch renders for the returned value
RenderBatch(res) ==
    IF Truthy(res) THEN RenderResults(res.items) ELSE Ok(<<FailedToAnalyze>>)

\* ----------------------------------------------------------------- main()
\* How a call of the external analyzer ends.
Outcomes(values) ==
    {[kind |-> "return", value |-> v] : v \in values}
    \cup {[kind |-> "raise", value |-> Str(e)] : e \in ExceptionMessages}

\* lines 73-109: try: body / except Exception as e: ...
TrySingle(comp) ==
    IF comp.exc = "none" THEN comp.out ELSE comp.out \o ExceptSingle(comp.exc)

\* lines 112-169: try: body / except Exception as e: ...
TryBatch(comp) ==
    IF comp.exc = "none" THEN comp.out ELSE comp.out \o ExceptBatch(comp.exc)

inputs == <<api_key, job_description, uploaded_files, button>>
locals == <<analyzer, resume_text, result, results, report, summary_data>>

\* A run starts with nothing rendered, nothing called and no local bound.
Reset ==
    /\ ui' = <<>>
    /\ calls' = <<>>
    /\ outcome' = "none"
    /\ raised' = "none"
    /\ analyzer' = Unset
    /\ resume_text' = Unset
    /\ result' = Unset
    /\ results' = Unset
    /\ report' = Unset
    /\ summary_data' = Unset

Init ==
    /\ api_key \in ApiKeys
    /\ job_description \in JobDescriptions
    /\ uploaded_files \in Uploads
    /\ button \in BOOLEAN
    /\ pc = "start"
    /\ ui = <<>>
    /\ calls = <<>>
    /\ outcome = "none"
    /\ raised = "none"
    /\ analyzer = Unset
    /\ resume_text = Unset
    /\ result = Unset
    /\ results = Unset
    /\ report = Unset
    /\ summary_data = Unset

\* The run has ended; the user turns to the widgets again and what the run
\* rendered and bound is dropped.
Interact ==
    /\ pc = "done"
    /\ pc' = "idle"
    /\ Reset
    /\ UNCHANGED inputs

\* The user changes a widget or clicks: the script runs again from the top
\* over the new widget values.
Rerun ==
    /\ pc = "idle"
    /\ api_key' \in ApiKeys
    /\ job_description' \in JobDescriptions
    /\ uploaded_files' \in Uploads
    /\ button' \in BOOLEAN
    /\ pc' = "start"
    /\ UNCHANGED <<ui, calls, outcome, raised, locals>>

\* lines 39-48
CheckApiKey ==
    /\ pc = "start"
    /\ IF api_key = ""
       THEN /\ ui' = PageHead \o <<ApiKeyWarning>>
            /\ analyzer' = analyzer
            /\ pc' = "done"
       ELSE /\ ui' = PageHead
            /\ analyzer' = [tag |-> "ResumeAnalyzer", api_key |-> api_key]
            /\ pc' = "inputs"
    /\ UNCHANGED <<inputs, calls, outcome, raised, resume_text, result, results, report,
                   summary_data>>

GateOpenIgnoresJob == button /\ uploaded_files # <<>>

\* line 71
SinglePathUpToTwo(files) == Len(files) <= 2
SinglePath(files) == Len(files) = 1

\* line 70: st.button(...) and uploaded_files and job_description
GateOpen == button /\ uploaded_files # <<>> /\ job_description # ""

\* lines 51-71 and 171-172
GateInputs ==
    /\ pc = "inputs"
    /\ ui' = ui
             \o << El("subheader", <<"Job Description">>),
                   El("subheader", <<"Upload Resumes">>) >>
             \o (IF uploaded_files # <<>>
                 THEN << El("write", <<"\\U0001F4C4 ", ToString(Len(uploaded_files)),
                                       " resume(s) uploaded">>) >>
                 ELSE <<>>)
             \o (IF GateOpen THEN <<>> ELSE <<InputsWarning>>)
    /\ pc' = IF ~GateOpen THEN "done"
             ELSE IF SinglePath(uploaded_files) THEN "extract" ELSE "batch"
    /\ UNCHANGED <<inputs, locals, calls, outcome, raised>>

\* lines 73-76 and 107-109
ExtractText ==
    /\ pc = "extract"
    /\ calls' = Append(calls, Call("extract_text_from_pdf", <<uploaded_files[1]>>))
    /\ \E o \in Outcomes({Str(t) : t \in ExtractedTexts}) :
          IF o.kind = "return"
          THEN /\ resume_text' = o.value
               /\ outcome' = "returned"
               /\ UNCHANGED <<ui, raised>>
               /\ pc' = "analyze"
          ELSE /\ outcome' = "raised"
               /\ raised' = o.value.s
               /\ ui' = ui \o ExceptSingle(o.value.s)
               /\ pc' = "done"
               /\ UNCHANGED resume_text
    /\ UNCHANGED <<inputs, analyzer, result, results, report, summary_data>>

\* lines 79-109
AnalyzeResume ==
    /\ pc = "analyze"
    /\ calls' = Append(calls, Call("analyze_resume", <<resume_text, Str(job_description)>>))
    /\ \E o \in Outcomes(SingleResponses) :
          IF o.kind = "return"
          THEN LET comp == RenderSingle(o.value) IN
               /\ result' = o.value
               /\ outcome' = "returned"
               /\ raised' = comp.exc
               /\ ui' = ui \o TrySingle(comp)
          ELSE /\ outcome' = "raised"
               /\ raised' = o.value.s
               /\ ui' = ui \o ExceptSingle(o.value.s)
               /\ UNCHANGED result
    /\ pc' = "done"
    /\ UNCHANGED <<inputs, analyzer, resume_text, results, report, summary_data>>

\* line 115
ResumeFiles(files) == [i \in 1..Len(files) |-> <<files[i].name, files[i]>>]

\* lines 112-169
AnalyzeMultiple ==
    /\ pc = "batch"
    /\ calls' = Append(calls, Call("analyze_multiple_resumes",
                                   <<ResumeFiles(uploaded_files), Str(job_description)>>))
    /\ \E o \in Outcomes(BatchResponses) :
          IF o.kind = "return"
          THEN LET comp == RenderBatch(o.value)
                   rep == create_analysis_report(o.value.items)
                   made == Truthy(o.value) /\ rep.exc = "none"
               IN
               /\ results' = o.value
               /\ outcome' = "returned"
               /\ raised' = comp.exc
               /\ ui' = ui \o TryBatch(comp)
               /\ report' = IF made THEN List(rep.out) ELSE report
               /\ summary_data' = IF made THEN List(SummaryData(o.value.items))
                                          ELSE summary_data
          ELSE /\ outcome' = "raised"
               /\ raised' = o.value.s
               /\ ui' = ui \o ExceptBatch(o.value.s)
               /\ UNCHANGED <<results, report, summary_data>>
    /\ pc' = "done"
    /\ UNCHANGED <<inputs, analyzer, resume_text, result>>

Next ==
    \/ Interact
    \/ Rerun
    \/ CheckApiKey
    \/ GateInputs
    \/ ExtractText
    \/ AnalyzeResume
    \/ AnalyzeMultiple

Spec == Init /\ [][Next]_vars

\* ------------------------------------- create_analysis_report on its own
InitReport ==
    /\ results \in ReportInputs
    /\ pc = "report"
    /\ api_key = ""
    /\ job_description = ""
    /\ uploaded_files = <<>>
    /\ button = FALSE
    /\ ui = <<>>
    /\ calls = <<>>
    /\ outcome = "none"
    /\ raised = "none"
    /\ analyzer = Unset
    /\ resume_text = Unset
    /\ result = Unset
    /\ report = Unset
    /\ summary_data = Unset

\* report = create_analysis_report(results)
CallReport ==
    /\ pc = "report"
    /\ LET rep == create_analysis_report(results.items) IN
       /\ raised' = rep.exc
       /\ report' = IF rep.exc = "none" THEN List(rep.out) ELSE report
    /\ pc' = "reported"
    /\ UNCHANGED <<inputs, ui, calls, outcome, analyzer, resume_text, result, results,
                   summary_data>>

SpecReport == InitReport /\ [][CallReport]_vars

\* ================================================================ claims
Ops == [i \in 1..Len(calls) |-> calls[i].op]
Kinds == {ui[i].kind : i \in 1..Len(ui)}
Shown(kind) == SelectSeq(ui, LAMBDA e : e.kind = kind)
ShownTexts(kind) == {ui[i].text : i \in {j \in 1..Len(ui) : ui[j].kind = kind}}
AllInputsGiven ==
    api_key # "" /\ job_description # "" /\ Len(uploaded_files) >= 1
Pressed == button

\* C1: no analyzer operation is invoked (and none is about to be) unless the
\* API key and the job description are non-empty, at least one file is
\* uploaded and the button was pressed; with no file or no job description
\* the run makes no analyzer call.
C1_NoAnalysisBeforeGate ==
    /\ (calls # <<>> \/ pc \in {"extract", "analyze", "batch"})
          => (AllInputsGiven /\ Pressed)
    /\ (uploaded_files = <<>> \/ job_description = "") => calls = <<>>

C1_Witness ==
    /\ pc = "done"
    /\ Len(calls) >= 1
    /\ AllInputsGiven /\ Pressed

\* C2: a run that passes the gate with one file calls extract_text_from_pdf
\* on that file first and then, once extraction has returned, analyze_resume
\* once on the extracted text and the job description, and never the batch
\* operation; with two or more files it calls analyze_multiple_resumes
\* exactly once with all (filename, file) pairs in upload order and nothing
\* else.
C2_BranchSelection ==
    (pc = "done" /\ AllInputsGiven /\ Pressed) =>
        IF Len(uploaded_files) = 1
        THEN /\ Len(calls) >= 1
             /\ calls[1] = Call("extract_text_from_pdf", <<uploaded_files[1]>>)
             /\ IF resume_text = Unset
                THEN Len(calls) = 1 /\ outcome = "raised"
                ELSE /\ Len(calls) = 2
                     /\ calls[2].op = "analyze_resume"
                     /\ calls[2].args = <<resume_text, Str(job_description)>>
        ELSE /\ Len(calls) = 1
             /\ calls[1].op = "analyze_multiple_resumes"
             /\ calls[1].args[2] = Str(job_description)
             /\ Len(calls[1].args[1]) = Len(uploaded_files)
             /\ \A i \in 1..Len(uploaded_files) :
                   calls[1].args[1][i] = <<uploaded_files[i].name, uploaded_files[i]>>

C2_Witness ==
    /\ pc = "done"
    /\ Len(uploaded_files) = 2
    /\ uploaded_files[1].name # uploaded_files[2].name
    /\ Ops = <<"analyze_multiple_resumes">>

\* C9 as stated: a missing-input warning is shown only when the credential,
\* the job description or the files are actually missing.
MissingInputWarningShown ==
    \E i \in 1..Len(ui) :
        /\ ui[i].kind = "warning"
        /\ ui[i].text \in {<<"Please enter your OpenAI API key.">>,
                           <<"Please upload at least one resume and provide a job description.">>}

C9_Original ==
    MissingInputWarningShown =>
        (api_key = "" \/ job_description = "" \/ uploaded_files = <<>>)

\* C9 amended: an empty credential produces its own warning and nothing
\* else; with a credential, one shared warning, distinct from the
\* credential's, is shown exactly when the job description is empty, no file
\* is uploaded or the button was not pressed in this run.
C9_SharedWarning ==
    pc = "done" =>
        /\ <<"Please enter your OpenAI API key.">> \in ShownTexts("warning")
              <=> api_key = ""
        /\ <<"Please upload at least one resume and provide a job description.">>
              \in ShownTexts("warning")
              <=> (api_key # "" /\ (job_description = "" \/ uploaded_files = <<>> \/ ~button))

C9_Witness ==
    /\ pc = "done"
    /\ api_key # "" /\ job_description # "" /\ uploaded_files # <<>> /\ ~button
    /\ MissingInputWarningShown

\* ----------------------------------------------------- reading a report
IsSectionHead(line) == Len(line) > 0 /\ line[1] = "Resume #"
SectionHeads(lines) == {i \in 1..Len(lines) : IsSectionHead(lines[i])}
\* The lines of the k-th section: from its "Resume #" line to the line
\* before the next one (or the end of the report).
SectionStart(lines, k) ==
    CHOOSE i \in SectionHeads(lines) :
        Cardinality({j \in SectionHeads(lines) : j <= i}) = k
SectionEnd(lines, k) ==
    IF k = Cardinality(SectionHeads(lines)) THEN Len(lines)
    ELSE SectionStart(lines, k + 1) - 1
Section(lines, k) == SubSeq(lines, SectionStart(lines, k), SectionEnd(lines, k))
First(S) == CHOOSE i \in S : \A j \in S : i <= j
\* The lines after the first `header` line of a section and before the first
\* `closing` line that follows it.
Block(sec, header, closing) ==
    LET h == First({i \in 1..Len(sec) : sec[i] = header})
        c == First({i \in (h + 1)..Len(sec) : sec[i] = closing})
    IN  SubSeq(sec, h + 1, c - 1)
KeywordBlock(sec) == Block(sec, <<"Missing Keywords:">>, <<>>)
SuggestionBlock(sec) == Block(sec, <<"Suggestions:">>, [i \in 1..50 |-> "="])

TheTable == Shown("dataframe")[1].rows
TheDownload == Shown("download_button")[1].data
FieldOr(res, key, default) == IF key \in DOMAIN res THEN res[key] ELSE Str(default)
Text(v) == IF v.tag = "null" THEN "None" ELSE v.s
BatchReturned == pc = "done" /\ results # Unset /\ results.tag = "list" /\ results.items # <<>>

\* C3: in the batch path, whenever the ranking table and the report are
\* produced for a non-empty analyzer result, row k of the table has Rank k and
\* section k of the report has number k, each with the filename and the match
\* score of the k-th returned result; they are produced whenever rendering
\* raises nothing.
C3_RankIsAnalyzerOrder ==
    BatchReturned =>
        LET items == results.items IN
        /\ raised = "none" => ("dataframe" \in Kinds /\ "download_button" \in Kinds)
        /\ "dataframe" \in Kinds =>
              /\ Len(Shown("dataframe")) = 1
              /\ Len(TheTable) = Len(items)
              /\ \A k \in 1..Len(items) :
                    /\ TheTable[k].Rank = k
                    /\ TheTable[k].Resume = FieldOr(items[k], "filename", "Unknown")
                    /\ TheTable[k].Match = FieldOr(items[k], "JD Match", "0%")
        /\ "download_button" \in Kinds =>
              /\ Len(Shown("download_button")) = 1
              /\ Cardinality(SectionHeads(TheDownload)) = Len(items)
              /\ \A k \in 1..Len(items) :
                    LET sec == Section(TheDownload, k) IN
                    /\ sec[1] = <<"Resume #", ToString(k), ": ",
                                  Text(FieldOr(items[k], "filename", "Unknown"))>>
                    /\ sec[3] = <<"Match Score: ",
                                  Text(FieldOr(items[k], "JD Match", "0%"))>>

C3_Witness ==
    /\ BatchReturned
    /\ "dataframe" \in Kinds /\ "download_button" \in Kinds
    /\ Len(results.items) = 2
    /\ FieldOr(results.items[1], "JD Match", "0%") = Str("75%")
    /\ FieldOr(results.items[2], "JD Match", "0%") = Str("90%")
    /\ FieldOr(results.items[1], "filename", "Unknown") = Str("resume2.pdf")
    /\ FieldOr(results.items[2], "filename", "Unknown") = Str("resume1.pdf")

\* C6: a report is generated and offered only in the batch path after
\* analyze_multiple_resumes returned a non-empty result; when an analyzer call
\* raises, the run shows no report, download button, ranking table, expander
\* or success message; the single-resume path never offers a report.
C6_ReportOnlyAfterBatchSuccess ==
    /\ ("download_button" \in Kinds \/ report # Unset) =>
          /\ Len(uploaded_files) >= 2
          /\ Ops = <<"analyze_multiple_resumes">>
          /\ outcome = "returned"
          /\ results.tag = "list" /\ Len(results.items) >= 1
    /\ outcome = "raised" =>
          /\ Kinds \cap {"download_button", "dataframe", "expander", "success"} = {}
          /\ report = Unset /\ summary_data = Unset
    /\ Len(uploaded_files) = 1 => ("download_button" \notin Kinds /\ report = Unset)

C6_Witness ==
    /\ pc = "done"
    /\ Ops = <<"analyze_multiple_resumes">>
    /\ outcome = "raised"

\* C7 as stated: when an analyzer call raises, exactly one error message is
\* shown for the action.
C7_Original ==
    (pc = "done" /\ outcome = "raised") => Len(Shown("error")) = 1

\* C7 amended: when an analyzer call raises, the run shows exactly one
\* "Error occurred: <exception>" message followed by exactly one
\* retry-suggestion message, both as errors and nothing else as an error, and
\* the raising call is the last analyzer call of the run (each operation is
\* called at most once).
C7_ErrorAndSuggestion ==
    (pc = "done" /\ outcome = "raised") =>
        /\ Len(Shown("error")) = 2
        /\ Shown("error")[1].text = <<"Error occurred: ", raised>>
        /\ Shown("error")[2].text \in
              {<<"Please try again with a different resume or job description">>,
               <<"Please try again with different resumes or job description">>}
        /\ ui[Len(ui)] = Shown("error")[2] /\ ui[Len(ui) - 1] = Shown("error")[1]
        /\ Ops \in {<<"extract_text_from_pdf">>,
                    <<"extract_text_from_pdf", "analyze_resume">>,
                    <<"analyze_multiple_resumes">>}

C7_Witness ==
    /\ pc = "done"
    /\ outcome = "raised"
    /\ Ops = <<"extract_text_from_pdf", "analyze_resume">>

\* C8: in the single-resume path, when analyze_resume returns something that
\* is not a mapping with the key "JD Match", the run shows the "Invalid
\* response format from the analyzer" error as its last element and no success
\* message, metric, keyword list, summary, suggestion or other error.
ShapeOk(res) == res.tag = "dict" /\ "JD Match" \in DOMAIN res.d
ResultHeadings ==
    {<<"Missing Keywords">>, <<"Profile Summary">>, <<"Suggestions">>}
C8_InvalidFormatStops ==
    (pc = "done" /\ result # Unset /\ ~ShapeOk(result)) =>
        /\ Len(Shown("error")) = 1
        /\ Shown("error")[1].text = <<"Invalid response format from the analyzer">>
        /\ ui[Len(ui)] = Shown("error")[1]
        /\ Kinds \cap {"success", "metric", "info", "warning", "download_button",
                       "dataframe", "expander"} = {}
        /\ ShownTexts("subheader") \cap ResultHeadings = {}
        /\ Len(Shown("write")) = 1
        /\ raised = "none"

C8_Witness ==
    /\ pc = "done"
    /\ result # Unset
    /\ result.tag = "dict"
    /\ "JD Match" \notin DOMAIN result.d
    /\ "MissingKeywords" \in DOMAIN result.d
    /\ "error" \in Kinds

\* C10: a run never shows both a success message and an error message.
C10_SuccessExcludesError ==
    ~("success" \in Kinds /\ "error" \in Kinds)

\* C4: in a generated report, the section of a result whose MissingKeywords
\* is empty, absent or null holds the single line "None" under "Missing
\* Keywords:", and the section of a result with keywords holds exactly one
\* "- keyword" line per keyword, in order, and no "None" line.
C4_KeywordFallback ==
    (pc = "reported" /\ report # Unset) =>
        /\ Cardinality(SectionHeads(report.items)) = Len(results.items)
        /\ \A k \in 1..Len(results.items) :
              LET res == results.items[k]
                  block == KeywordBlock(Section(report.items, k))
                  has == /\ "MissingKeywords" \in DOMAIN res
                         /\ res["MissingKeywords"].tag = "list"
                         /\ res["MissingKeywords"].items # <<>>
              IN  IF has
                  THEN /\ Len(block) = Len(res["MissingKeywords"].items)
                       /\ \A j \in 1..Len(block) :
                             block[j] = <<"- ", res["MissingKeywords"].items[j]>>
                  ELSE block = << <<"None">> >>

C4_Witness ==
    /\ pc = "reported" /\ report # Unset
    /\ Len(results.items) = 2
    /\ "MissingKeywords" \notin DOMAIN results.items[1]
    /\ "MissingKeywords" \in DOMAIN results.items[2]
    /\ results.items[2]["MissingKeywords"] = List(<<"SQL", "Python">>)
    /\ KeywordBlock(Section(report.items, 1)) = << <<"None">> >>

\* C5: in a generated report, the section of a result whose Suggestions is
\* empty or absent has nothing but the blank line between "Suggestions:" and
\* the closing separator (no "- " line, no "None"), also when the same
\* section's keyword block is the "None" fallback; a result with suggestions
\* gets one "- suggestion" line each, in order, before that blank line.
C5_NoSuggestionFallback ==
    (pc = "reported" /\ report # Unset) =>
        \A k \in 1..Len(results.items) :
            LET res == results.items[k]
                block == SuggestionBlock(Section(report.items, k))
                sg == IF "Suggestions" \in DOMAIN res THEN res["Suggestions"].items
                      ELSE <<>>
            IN  /\ Len(block) = Len(sg) + 1
                /\ block[Len(block)] = <<>>
                /\ \A j \in 1..Len(sg) : block[j] = <<"- ", sg[j]>>

C5_Witness ==
    /\ pc = "reported" /\ report # Unset
    /\ Len(results.items) = 2
    /\ "MissingKeywords" \in DOMAIN results.items[1]
    /\ "Suggestions" \in DOMAIN results.items[1]
    /\ results.items[1]["MissingKeywords"] = List(<<>>)
    /\ results.items[1]["Suggestions"] = List(<<>>)
    /\ "Suggestions" \notin DOMAIN results.items[2]
    /\ KeywordBlock(Section(report.items, 1)) = << <<"None">> >>
    /\ SuggestionBlock(Section(report.items, 1)) = << <<>> >>

====
